---- MODULE Spec2Model ----
(***************************************************************************)
(* x402-anchor-macro: the #[x402] payment gate (x402-macros/src/lib.rs)    *)
(* and the example program that uses it (x402-example/src/lib.rs).         *)
(*                                                                         *)
(* A transaction is a sequence of instructions (program_id, accounts,      *)
(* data).  The runtime executes them in order on a working copy of the     *)
(* account state and restores the state of the start of the transaction    *)
(* when an instruction returns Err.                                        *)
(*                                                                         *)
(* u64 values are four 16-bit limbs, most significant first, so that the   *)
(* whole u64 range (u64::MAX included) is available to the model checker.  *)
(***************************************************************************)
EXTENDS Integers, Sequences, FiniteSets, TLC

VARIABLES
    results,          \* ComputeResult accounts, by account key
    ledgers,          \* PaymentLedger accounts, by the payer of their seeds
    lamports,         \* balance of the payers and of the recipients
    events,           \* the event log (emit!)
    history,          \* the record_payment calls that returned Ok: payer, amount
    clock,            \* Clock::get()?.unix_timestamp
    overflow_checks,  \* build profile: does u64 `+=` panic on overflow
    snap,             \* account state at the start of the running transaction
    tx,               \* instructions of the running transaction, so far
    signer,           \* the account that signed the running transaction
    status,           \* "idle" | "running" | "aborted"
    err,              \* result of the last executed instruction
    executed,         \* instructions executed so far
    g_in,             \* GateSpec: the transaction handed to one gated call
    g_out             \* GateSpec: what that call returned

vars == <<results, ledgers, lamports, events, history, clock, overflow_checks,
          snap, tx, signer, status, err, executed, g_in, g_out>>

-----------------------------------------------------------------------------
(* Bounds of the model *)

\* instructions executed in a behaviour, over all its transactions
MaxInstructions == 3

-----------------------------------------------------------------------------
(* u64 *)

LimbBase == 256 * 256

U64(n) == <<0, 0, n \div LimbBase, n % LimbBase>>

U64Max == <<LimbBase - 1, LimbBase - 1, LimbBase - 1, LimbBase - 1>>

\* a < b on u64
U64Lt(a, b) ==
    \E i \in 1..4 : a[i] < b[i] /\ \A j \in 1..(i - 1) : a[j] = b[j]

\* a + b on u64: the wrapped sum and whether it overflowed
U64Add(a, b) ==
    LET s4 == a[4] + b[4]
        s3 == a[3] + b[3] + (s4 \div LimbBase)
        s2 == a[2] + b[2] + (s3 \div LimbBase)
        s1 == a[1] + b[1] + (s2 \div LimbBase)
    IN  [val |-> <<s1 % LimbBase, s2 % LimbBase, s3 % LimbBase, s4 % LimbBase>>,
         overflow |-> s1 >= LimbBase]

\* u64::from_le_bytes on 8 bytes
from_le_bytes(b) ==
    <<b[7] + 256 * b[8], b[5] + 256 * b[6], b[3] + 256 * b[4], b[1] + 256 * b[2]>>

\* u64::to_le_bytes, what a client does to build a payload
to_le_bytes(v) ==
    <<v[4] % 256, v[4] \div 256, v[3] % 256, v[3] \div 256,
      v[2] % 256, v[2] \div 256, v[1] % 256, v[1] \div 256>>

\* a u64 as a lamport count, -1 when it exceeds every balance of the model
\* (all lamports in circulation stay below 2^31)
AsLamports(v) ==
    IF v[1] = 0 /\ v[2] = 0 /\ v[3] < LimbBase \div 2
    THEN v[3] * LimbBase + v[4] ELSE -1

-----------------------------------------------------------------------------
(* Keys and program constants *)

ProgramId == "9xwTdtTvo4h1tZWakCz3JPSpi4ePht9VHzujtr2Dywb1"
ExpectedRecipient == "ESPyXCB93a6CvrAE2btofpgXAswf4oE3NuziBsHVCAZa"
InstructionsSysvar == "Sysvar1nstructions1111111111111111111111111"
SystemProgram == "11111111111111111111111111111111"
DefaultPubkey == "11111111111111111111111111111111"
OtherRecipient == "other_recipient"
PayProgram == "pay_program"
MemoProgram == "memo_program"

Payers == {"payer1", "payer2"}
ResultKeys == {"result1", "result2"}

PremiumPrice == 1000000
StandardPrice == 5000000
EnterprisePrice == 50000000
RequiredLamports == 1000000

-----------------------------------------------------------------------------
(* Instructions: what a client puts in a transaction *)

\* Anchor's 8-byte instruction discriminator, sha256("global:<name>")[..8]
Discriminator(name) ==
    CASE name = "premium_compute"    -> <<197, 242, 140, 161, 35, 153, 18, 45>>
      [] name = "standard_compute"   -> <<10, 127, 156, 91, 37, 243, 109, 100>>
      [] name = "enterprise_compute" -> <<102, 139, 222, 225, 49, 224, 98, 9>>
      [] name = "free_compute"       -> <<93, 193, 222, 31, 29, 146, 225, 54>>
      [] name = "verify_payment"     -> <<70, 155, 98, 44, 176, 110, 74, 169>>
      [] name = "record_payment"     -> <<226, 154, 10, 27, 9, 14, 148, 137>>

GatedNames == {"premium_compute", "standard_compute", "enterprise_compute"}

\* seeds = [b"payment_ledger", payer.key().as_ref()]
LedgerPda(payer) == IF payer = "payer1" THEN "ledger_payer1" ELSE "ledger_payer2"

Instruction(program_id, accounts, data) ==
    [program_id |-> program_id, accounts |-> accounts, data |-> data]

\* PremiumCompute / FreeCompute accounts, then the remaining accounts
ComputeIx(name, payer, result, with_sysvar) ==
    Instruction(ProgramId,
                <<payer, result, SystemProgram>>
                    \o (IF with_sysvar THEN <<InstructionsSysvar>> ELSE <<>>),
                Discriminator(name))

VerifyIx(payer) ==
    Instruction(ProgramId, <<payer>>, Discriminator("verify_payment"))

RecordIx(payer, ledger_of, amount) ==
    Instruction(ProgramId, <<payer, LedgerPda(ledger_of), SystemProgram>>,
                Discriminator("record_payment") \o to_le_bytes(amount))

\* the selector an external payment program puts before the amount
PaySelector == <<11, 22, 33, 44, 55, 66, 77, 88>>

PayIx(payer, recipient, amount) ==
    Instruction(PayProgram, <<payer, recipient, SystemProgram>>,
                PaySelector \o to_le_bytes(amount))

-----------------------------------------------------------------------------
(* The #[x402] gate *)

\* every length from 8 up is taken for an amount
DecodePaymentAmountFrom8(data) ==
    IF Len(data) >= 16
    THEN [ok |-> TRUE, payment_amount |-> from_le_bytes(SubSeq(data, 9, 16))]
    ELSE IF Len(data) >= 8
    THEN [ok |-> TRUE, payment_amount |-> from_le_bytes(SubSeq(data, 1, 8))]
    ELSE [ok |-> FALSE, payment_amount |-> U64(0)]

\* a long payload is read at offset 0 too
DecodePaymentAmountOffset0(data) ==
    IF Len(data) >= 16 \/ Len(data) = 8
    THEN [ok |-> TRUE, payment_amount |-> from_le_bytes(SubSeq(data, 1, 8))]
    ELSE [ok |-> FALSE, payment_amount |-> U64(0)]

\* previous_ix.data -> payment_amount, or the early return
DecodePaymentAmount(data) ==
    IF Len(data) >= 16
    THEN [ok |-> TRUE, payment_amount |-> from_le_bytes(SubSeq(data, 9, 16))]
    ELSE IF Len(data) = 8
    THEN [ok |-> TRUE, payment_amount |-> from_le_bytes(SubSeq(data, 1, 8))]
    ELSE [ok |-> FALSE, payment_amount |-> U64(0)]

\* the recipient taken from accounts.get(0), the payer's place
RecipientMismatchFirstAccount(accounts) ==
    ~(Len(accounts) >= 1 /\ accounts[1] = ExpectedRecipient)

\* previous_ix.accounts.get(1).map(|acc| acc.pubkey) != Some(expected_recipient)
RecipientMismatch(accounts) ==
    ~(Len(accounts) >= 2 /\ accounts[2] = ExpectedRecipient)

\* payment_amount <= X402_REQUIRED_AMOUNT
InsufficientPaymentOrEqual(payment_amount, required) ==
    ~U64Lt(required, payment_amount)

\* payment_amount < X402_REQUIRED_AMOUNT
InsufficientPayment(payment_amount, required) == U64Lt(payment_amount, required)

\* the gate inspecting the instruction after the current one
X402GateLooksAhead(remaining_accounts, ixs, current_ix_index, X402_REQUIRED_AMOUNT) ==
    IF ~(\E k \in 1..Len(remaining_accounts) :
            remaining_accounts[k] = InstructionsSysvar)
    THEN "InvalidArgument"
    ELSE IF current_ix_index + 2 > Len(ixs)
    THEN "InvalidArgument"
    ELSE LET previous_ix == ixs[current_ix_index + 2]
             decoded == DecodePaymentAmount(previous_ix.data)
         IN  IF ~decoded.ok
             THEN "InvalidArgument"
             ELSE IF InsufficientPayment(decoded.payment_amount, X402_REQUIRED_AMOUNT)
             THEN "InsufficientFunds"
             ELSE IF RecipientMismatch(previous_ix.accounts)
             THEN "InvalidArgument"
             ELSE "Ok"

\* the predecessor also required to be an instruction of the payment program
X402GateChecksProgram(remaining_accounts, ixs, current_ix_index, X402_REQUIRED_AMOUNT) ==
    IF ~(\E k \in 1..Len(remaining_accounts) :
            remaining_accounts[k] = InstructionsSysvar)
    THEN "InvalidArgument"
    ELSE IF current_ix_index = 0
    THEN "InvalidArgument"
    ELSE LET previous_ix == ixs[current_ix_index]
             decoded == DecodePaymentAmount(previous_ix.data)
         IN  IF ~decoded.ok \/ previous_ix.program_id # PayProgram
             THEN "InvalidArgument"
             ELSE IF InsufficientPayment(decoded.payment_amount, X402_REQUIRED_AMOUNT)
             THEN "InsufficientFunds"
             ELSE IF RecipientMismatch(previous_ix.accounts)
             THEN "InvalidArgument"
             ELSE "Ok"

\* the payment looked for at index 0 of the transaction
X402GateFirstInstruction(remaining_accounts, ixs, current_ix_index, X402_REQUIRED_AMOUNT) ==
    IF ~(\E k \in 1..Len(remaining_accounts) :
            remaining_accounts[k] = InstructionsSysvar)
    THEN "InvalidArgument"
    ELSE IF current_ix_index = 0
    THEN "InvalidArgument"
    ELSE LET previous_ix == ixs[1]
             decoded == DecodePaymentAmount(previous_ix.data)
         IN  IF ~decoded.ok
             THEN "InvalidArgument"
             ELSE IF InsufficientPayment(decoded.payment_amount, X402_REQUIRED_AMOUNT)
             THEN "InsufficientFunds"
             ELSE IF RecipientMismatch(previous_ix.accounts)
             THEN "InvalidArgument"
             ELSE "Ok"

\* The block the macro puts before the body.  ixs is the instruction list the
\* instructions sysvar exposes and current_ix_index the index it reports
\* (0-based: instruction i is ixs[i + 1]).  "Ok" when the body may run,
\* otherwise the ProgramError returned.
X402Gate(remaining_accounts, ixs, current_ix_index, X402_REQUIRED_AMOUNT) ==
    IF ~(\E k \in 1..Len(remaining_accounts) :
            remaining_accounts[k] = InstructionsSysvar)
    THEN "InvalidArgument"
    ELSE IF current_ix_index = 0
    THEN "InvalidArgument"
    ELSE LET previous_ix == ixs[current_ix_index]
             decoded == DecodePaymentAmount(previous_ix.data)
         IN  IF ~decoded.ok
             THEN "InvalidArgument"
             ELSE IF InsufficientPayment(decoded.payment_amount, X402_REQUIRED_AMOUNT)
             THEN "InsufficientFunds"
             ELSE IF RecipientMismatch(previous_ix.accounts)
             THEN "InvalidArgument"
             ELSE "Ok"

-----------------------------------------------------------------------------
(* Accounts.  st is the account state an instruction works on:             *)
(* [results, ledgers, lamports, events, history].  Every handler returns   *)
(* [err, st]: err = "Ok" or the error returned, st the state it leaves.    *)
(* history is kept by the runtime, no handler reads or writes it.          *)

NoResult == [exists |-> FALSE, owner |-> DefaultPubkey, value |-> 0, paid |-> FALSE]

\* a ComputeResult account right after `init`: all fields zero
ZeroedResult == [exists |-> TRUE, owner |-> DefaultPubkey, value |-> 0, paid |-> FALSE]

NoLedger ==
    [exists |-> FALSE, payer |-> DefaultPubkey, total_payments |-> 0,
     total_amount |-> U64(0), last_payment |-> 0]

\* a PaymentLedger account right after `init_if_needed` created it
ZeroedLedger ==
    [exists |-> TRUE, payer |-> DefaultPubkey, total_payments |-> 0,
     total_amount |-> U64(0), last_payment |-> 0]

\* lamports the payer of an `init` puts into an account of `space` bytes
RentExemptMinimum(space) == (128 + space) * 6960

ResultSpace == 8 + 32 + 8 + 1
LedgerSpace == 8 + 32 + 8 + 8 + 8

Return(e, st) == [err |-> e, st |-> st]

\* `init_if_needed` in place of `init`: an existing result account is accepted
ComputeAccountsInitIfNeeded(st, ix) ==
    IF Len(ix.accounts) < 3 \/ ix.accounts[1] \notin DOMAIN st.lamports
    THEN Return("AccountNotEnoughKeys", st)
    ELSE LET payer == ix.accounts[1]
             result == ix.accounts[2]
         IN  IF result \notin DOMAIN st.results
             THEN Return("AccountAlreadyInUse", st)
             ELSE IF st.results[result].exists
             THEN Return("Ok", st)
             ELSE IF st.lamports[payer] < RentExemptMinimum(ResultSpace)
             THEN Return("InsufficientLamports", st)
             ELSE Return("Ok",
                    [st EXCEPT !.results[result] = ZeroedResult,
                               !.lamports[payer] = @ - RentExemptMinimum(ResultSpace),
                               !.lamports[result] = @ + RentExemptMinimum(ResultSpace)])

\* #[derive(Accounts)] PremiumCompute / FreeCompute: result is `init`ed and
\* paid for by payer before the handler runs
ComputeAccounts(st, ix) ==
    IF Len(ix.accounts) < 3 \/ ix.accounts[1] \notin DOMAIN st.lamports
    THEN Return("AccountNotEnoughKeys", st)
    ELSE LET payer == ix.accounts[1]
             result == ix.accounts[2]
         IN  IF result \notin DOMAIN st.results \/ st.results[result].exists
             THEN Return("AccountAlreadyInUse", st)
             ELSE IF st.lamports[payer] < RentExemptMinimum(ResultSpace)
             THEN Return("InsufficientLamports", st)
             ELSE Return("Ok",
                    [st EXCEPT !.results[result] = ZeroedResult,
                               !.lamports[payer] = @ - RentExemptMinimum(ResultSpace),
                               !.lamports[result] = @ + RentExemptMinimum(ResultSpace)])

\* #[derive(Accounts)] RecordPayment: payment_ledger is the PDA of payer,
\* created (zeroed) when it does not exist yet
RecordAccounts(st, ix) ==
    IF Len(ix.accounts) < 3 \/ ix.accounts[1] \notin DOMAIN st.ledgers
    THEN Return("AccountNotEnoughKeys", st)
    ELSE LET payer == ix.accounts[1]
         IN  IF ix.accounts[2] # LedgerPda(payer)
             THEN Return("ConstraintSeeds", st)
             ELSE IF st.ledgers[payer].exists
             THEN Return("Ok", st)
             ELSE IF st.lamports[payer] < RentExemptMinimum(LedgerSpace)
             THEN Return("InsufficientLamports", st)
             ELSE Return("Ok",
                    [st EXCEPT !.ledgers[payer] = ZeroedLedger,
                               !.lamports[payer] = @ - RentExemptMinimum(LedgerSpace)])

\* #[derive(Accounts)] VerifyPayment
VerifyAccounts(st, ix) ==
    IF Len(ix.accounts) < 1 \/ ix.accounts[1] \notin DOMAIN st.lamports
    THEN Return("AccountNotEnoughKeys", st)
    ELSE Return("Ok", st)

-----------------------------------------------------------------------------
(* Handlers.  ctx = [payer, result, remaining_accounts, ixs, index, now]    *)

PremiumValue == 42
StandardValue == 100
EnterpriseValue == 1000

ComputeEvent(payer, result, timestamp) ==
    [name |-> "ComputeEvent", payer |-> payer, result |-> result,
     timestamp |-> timestamp]

PaymentRecordedEvent(payer, amount, total_payments) ==
    [name |-> "PaymentRecordedEvent", payer |-> payer, amount |-> amount,
     total_payments |-> total_payments]

\* the body of a gated function
ComputeBody(st, ctx, value) ==
    Return("Ok",
        [st EXCEPT !.results[ctx.result] =
                       [exists |-> TRUE, owner |-> ctx.payer, value |-> value,
                        paid |-> TRUE],
                   !.events = Append(@, ComputeEvent(ctx.payer, value, ctx.now))])

\* the gate's error is computed and not returned
X402ErrorNotReturned(st, ctx, price, value) == ComputeBody(st, ctx, value)

\* the gate waived for a payer whose ledger already records a payment
X402TrustsLedger(st, ctx, price, value) ==
    LET gate == X402Gate(ctx.remaining_accounts, ctx.ixs, ctx.index, U64(price))
    IN  IF gate # "Ok" /\ st.ledgers[ctx.payer].total_payments = 0
        THEN Return(gate, st)
        ELSE ComputeBody(st, ctx, value)

\* a function under #[x402(price = ...)]: the gate, then the body
X402(st, ctx, price, value) ==
    LET gate == X402Gate(ctx.remaining_accounts, ctx.ixs, ctx.index, U64(price))
    IN  IF gate # "Ok" THEN Return(gate, st) ELSE ComputeBody(st, ctx, value)

premium_compute(st, ctx) == X402(st, ctx, PremiumPrice, PremiumValue)

\* a digit dropped from the price
standard_computeWrongPrice(st, ctx) == X402(st, ctx, 500000, StandardValue)

standard_compute(st, ctx) == X402(st, ctx, StandardPrice, StandardValue)

enterprise_compute(st, ctx) == X402(st, ctx, EnterprisePrice, EnterpriseValue)

\* free_compute put under #[x402] like the other compute functions
free_computeGated(st, ctx) ==
    LET gate == X402Gate(ctx.remaining_accounts, ctx.ixs, ctx.index, U64(PremiumPrice))
    IN  IF gate # "Ok" THEN Return(gate, st)
        ELSE Return("Ok",
               [st EXCEPT !.results[ctx.result] =
                              [exists |-> TRUE, owner |-> ctx.payer, value |-> 0,
                               paid |-> FALSE]])

\* the body of a gated function copied with its paid = true
free_computeMarksPaid(st, ctx) ==
    Return("Ok",
        [st EXCEPT !.results[ctx.result] =
                       [exists |-> TRUE, owner |-> ctx.payer, value |-> 0,
                        paid |-> TRUE]])

free_compute(st, ctx) ==
    Return("Ok",
        [st EXCEPT !.results[ctx.result] =
                       [exists |-> TRUE, owner |-> ctx.payer, value |-> 0,
                        paid |-> FALSE]])

\* `<=` for `<`: a balance of exactly the threshold is refused
verify_paymentOrEqual(st, ctx) ==
    IF st.lamports[ctx.payer] <= RequiredLamports
    THEN Return("InsufficientPayment", st)
    ELSE Return("Ok", st)

verify_payment(st, ctx) ==
    IF st.lamports[ctx.payer] < RequiredLamports
    THEN Return("InsufficientPayment", st)
    ELSE Return("Ok", st)

\* record_payment without require!(amount > 0, ...)
record_paymentNoRequire(st, ctx, amount, checks) ==
    LET ledger == st.ledgers[ctx.payer]
        sum == U64Add(ledger.total_amount, amount)
    IN  IF sum.overflow /\ checks
        THEN Return("ProgramFailedToComplete", st)
        ELSE Return("Ok",
               [st EXCEPT !.ledgers[ctx.payer] =
                              [ledger EXCEPT !.total_payments = @ + 1,
                                             !.total_amount = sum.val,
                                             !.last_payment = ctx.now],
                          !.events = Append(@,
                              PaymentRecordedEvent(ctx.payer, amount,
                                                   ledger.total_payments + 1))])

\* the event built before the counter is incremented
record_paymentEmitsOldCount(st, ctx, amount, checks) ==
    IF ~U64Lt(U64(0), amount)
    THEN Return("InvalidPaymentAmount", st)
    ELSE LET ledger == st.ledgers[ctx.payer]
             sum == U64Add(ledger.total_amount, amount)
         IN  IF sum.overflow /\ checks
             THEN Return("ProgramFailedToComplete", st)
             ELSE Return("Ok",
                    [st EXCEPT !.ledgers[ctx.payer] =
                                   [ledger EXCEPT !.total_payments = @ + 1,
                                                  !.total_amount = sum.val,
                                                  !.last_payment = ctx.now],
                               !.events = Append(@,
                                   PaymentRecordedEvent(ctx.payer, amount,
                                                        ledger.total_payments))])

\* `+=` on u64 panics on overflow when the build has overflow checks and
\* wraps otherwise
record_payment(st, ctx, amount, checks) ==
    IF ~U64Lt(U64(0), amount)
    THEN Return("InvalidPaymentAmount", st)
    ELSE LET ledger == st.ledgers[ctx.payer]
             sum == U64Add(ledger.total_amount, amount)
         IN  IF sum.overflow /\ checks
             THEN Return("ProgramFailedToComplete", st)
             ELSE Return("Ok",
                    [st EXCEPT !.ledgers[ctx.payer] =
                                   [ledger EXCEPT !.total_payments = @ + 1,
                                                  !.total_amount = sum.val,
                                                  !.last_payment = ctx.now],
                               !.events = Append(@,
                                   PaymentRecordedEvent(ctx.payer, amount,
                                                        ledger.total_payments + 1))])

-----------------------------------------------------------------------------
(* Instruction processing *)

\* The payment instruction the gate expects before a gated call (accounts
\* X402Pay: payer, payment_recipient, system_program; data selector, amount):
\* it moves `amount` lamports from payer to payment_recipient.
ExternalPay(st, ix) ==
    IF Len(ix.accounts) < 2 \/ Len(ix.data) # 16
       \/ ix.accounts[1] \notin DOMAIN st.lamports
       \/ ix.accounts[2] \notin DOMAIN st.lamports
    THEN Return("ExternalError", st)
    ELSE LET amount == AsLamports(from_le_bytes(SubSeq(ix.data, 9, 16)))
             from == ix.accounts[1]
             to == ix.accounts[2]
         IN  IF amount < 0 \/ st.lamports[from] < amount
             THEN Return("ExternalError", st)
             ELSE IF from = to THEN Return("Ok", st)
             ELSE Return("Ok", [st EXCEPT !.lamports[from] = @ - amount,
                                          !.lamports[to] = @ + amount])

ComputeCtx(ix, ixs, index, now) ==
    [payer |-> ix.accounts[1], result |-> ix.accounts[2],
     remaining_accounts |-> SubSeq(ix.accounts, 4, Len(ix.accounts)),
     ixs |-> ixs, index |-> index, now |-> now]

PayerCtx(ix, now) == [payer |-> ix.accounts[1], now |-> now]

\* #[program]: dispatch of instruction `index` of ixs on its discriminator;
\* the accounts are validated before the handler runs
Entry(st, ixs, index, now, checks) ==
    LET ix == ixs[index + 1]
        disc == IF Len(ix.data) >= 8 THEN SubSeq(ix.data, 1, 8) ELSE <<>>
        compute(name) ==
            LET a == ComputeAccounts(st, ix)
                ctx == ComputeCtx(ix, ixs, index, now)
            IN  IF a.err # "Ok" THEN a
                ELSE CASE name = "premium_compute" -> premium_compute(a.st, ctx)
                       [] name = "standard_compute" -> standard_compute(a.st, ctx)
                       [] name = "enterprise_compute" -> enterprise_compute(a.st, ctx)
                       [] name = "free_compute" -> free_compute(a.st, ctx)
    IN  IF ix.program_id = PayProgram THEN ExternalPay(st, ix)
        ELSE IF ix.program_id # ProgramId THEN Return("Ok", st)
        ELSE IF \E name \in GatedNames \cup {"free_compute"} : disc = Discriminator(name)
        THEN compute(CHOOSE name \in GatedNames \cup {"free_compute"} :
                        disc = Discriminator(name))
        ELSE IF disc = Discriminator("verify_payment")
        THEN LET a == VerifyAccounts(st, ix)
             IN  IF a.err # "Ok" THEN a ELSE verify_payment(a.st, PayerCtx(ix, now))
        ELSE IF disc = Discriminator("record_payment")
        THEN IF Len(ix.data) < 16 THEN Return("InstructionDidNotDeserialize", st)
             ELSE LET a == RecordAccounts(st, ix)
                  IN  IF a.err # "Ok" THEN a
                      ELSE record_payment(a.st, PayerCtx(ix, now),
                                          from_le_bytes(SubSeq(ix.data, 9, 16)), checks)
        ELSE Return("InstructionFallbackNotFound", st)

-----------------------------------------------------------------------------
(* The program in a sequence of transactions *)

Working ==
    [results |-> results, ledgers |-> ledgers, lamports |-> lamports,
     events |-> events, history |-> history]

Genesis ==
    [results |-> [r \in ResultKeys |-> NoResult],
     ledgers |-> [p \in Payers |-> NoLedger],
     lamports |-> [k \in Payers \cup ResultKeys
                            \cup {ExpectedRecipient, OtherRecipient} |->
                     IF k = "payer1" THEN 100 * PremiumPrice
                     ELSE IF k = "payer2" THEN 2 * PremiumPrice ELSE 0],
     events |-> <<>>,
     history |-> <<>>]

NoGateInput ==
    [ixs |-> <<>>, index |-> 0, name |-> "", with_sysvar |-> FALSE,
     amount |-> U64(0), layout |-> "", recipient |-> "", shape |-> ""]

NoGateOutput == [done |-> FALSE, err |-> "Ok", st |-> Genesis]

Init ==
    /\ results = Genesis.results
    /\ ledgers = Genesis.ledgers
    /\ lamports = Genesis.lamports
    /\ events = Genesis.events
    /\ history = Genesis.history
    /\ clock = 0
    /\ overflow_checks \in BOOLEAN
    /\ snap = Genesis
    /\ tx = <<>>
    /\ signer = "payer1"
    /\ status = "idle"
    /\ err = "Ok"
    /\ executed = 0
    /\ g_in = NoGateInput
    /\ g_out = NoGateOutput

BeginTransaction ==
    /\ status \in {"idle", "aborted"}
    /\ executed < MaxInstructions
    /\ clock' = clock + 1
    /\ snap' = Working
    /\ tx' = <<>>
    /\ signer' \in Payers
    /\ status' = "running"
    /\ err' = "Ok"
    /\ UNCHANGED <<results, ledgers, lamports, events, history, overflow_checks,
                   executed, g_in, g_out>>

\* what the client calls with ix, for the history
NoCall == [name |-> "", payer |-> "", amount |-> U64(0)]

\* The runtime runs the next instruction of the transaction; an Err aborts
\* the transaction and restores the accounts and the log of its start.
\* The instructions sysvar also lists the instructions still to come; the
\* program reads none of them, and tx grows as they are executed (GateSpec
\* hands the gate whole transactions, later instructions included).
Execute(ix, call) ==
    /\ status = "running"
    /\ executed < MaxInstructions
    /\ executed' = executed + 1
    /\ LET ixs == Append(tx, ix)
           out == Entry(Working, ixs, Len(tx), clock, overflow_checks)
           after == IF out.err # "Ok" THEN snap
                    ELSE IF call.name # "record_payment" THEN out.st
                    ELSE [out.st EXCEPT !.history =
                             Append(@, [payer |-> call.payer, amount |-> call.amount])]
       IN  /\ tx' = ixs
           /\ err' = out.err
           /\ status' = IF out.err = "Ok" THEN "running" ELSE "aborted"
           /\ results' = after.results
           /\ ledgers' = after.ledgers
           /\ lamports' = after.lamports
           /\ events' = after.events
           /\ history' = after.history
    /\ UNCHANGED <<clock, overflow_checks, snap, signer, g_in, g_out>>

CommitTransaction ==
    /\ status = "running"
    /\ tx # <<>>
    /\ status' = "idle"
    /\ tx' = <<>>
    /\ snap' = Working
    /\ UNCHANGED <<results, ledgers, lamports, events, history, clock,
                   overflow_checks, signer, err, executed, g_in, g_out>>

PayAmounts == {U64(PremiumPrice - 1), U64(PremiumPrice), U64(EnterprisePrice)}
RecordAmounts == {U64(0), U64(PremiumPrice), U64Max}

\* Every instruction of a transaction names its signer as payer, but for the
\* verify_payment that the keypair of a result account signs.
PremiumCompute ==
    \E r \in ResultKeys, s \in BOOLEAN :
        Execute(ComputeIx("premium_compute", signer, r, s), NoCall)

StandardCompute ==
    \E r \in ResultKeys, s \in BOOLEAN :
        Execute(ComputeIx("standard_compute", signer, r, s), NoCall)

EnterpriseCompute ==
    \E r \in ResultKeys, s \in BOOLEAN :
        Execute(ComputeIx("enterprise_compute", signer, r, s), NoCall)

FreeCompute ==
    \E r \in ResultKeys, s \in BOOLEAN :
        Execute(ComputeIx("free_compute", signer, r, s), NoCall)

VerifyPayment == Execute(VerifyIx(signer), NoCall)

\* verify_payment signed by the keypair of a result account
VerifyPaymentOfResult == \E r \in ResultKeys : Execute(VerifyIx(r), NoCall)

\* with the signer's ledger, or (once) with the ledger of another payer
RecordPayment ==
    \E l \in Payers, a \in RecordAmounts :
        /\ l # signer => a = U64(PremiumPrice)
        /\ Execute(RecordIx(signer, l, a),
                   [name |-> "record_payment", payer |-> signer, amount |-> a])

Pay ==
    \E r \in {ExpectedRecipient, OtherRecipient}, a \in PayAmounts :
        Execute(PayIx(signer, r, a), NoCall)

\* record_payment handed a ComputeResult account as its payment_ledger
RecordPaymentOnResult ==
    \E r \in ResultKeys :
        Execute(Instruction(ProgramId, <<signer, r, SystemProgram>>,
                            Discriminator("record_payment")
                                \o to_le_bytes(U64(PremiumPrice))),
                [name |-> "record_payment", payer |-> signer,
                 amount |-> U64(PremiumPrice)])

\* an instruction of another program that moves nothing
Memo ==
    Execute(Instruction(MemoProgram, <<signer, ExpectedRecipient>>,
                        to_le_bytes(U64(EnterprisePrice))), NoCall)

Next ==
    \/ BeginTransaction
    \/ CommitTransaction
    \/ PremiumCompute
    \/ StandardCompute
    \/ EnterpriseCompute
    \/ FreeCompute
    \/ VerifyPayment
    \/ VerifyPaymentOfResult
    \/ RecordPayment
    \/ RecordPaymentOnResult
    \/ Pay
    \/ Memo

Spec == Init /\ [][Next]_vars

-----------------------------------------------------------------------------
(* One gated call on a given transaction.  The call is instruction `index`  *)
(* of g_in.ixs and runs on the genesis accounts; g_in also keeps what the   *)
(* client meant to encode: the amount, the layout and the recipient of the  *)
(* instruction it built as the payment.                                     *)

GateAmounts ==
    {U64(0), U64(PremiumPrice - 1), U64(PremiumPrice), U64(StandardPrice - 1),
     U64(StandardPrice), U64(EnterprisePrice - 1), U64(EnterprisePrice),
     <<0, 0, LimbBase - 1, LimbBase - 1>>, <<0, 1, 0, 0>>, <<256, 0, 0, 0>>,
     <<LimbBase - 1, LimbBase - 1, LimbBase - 1, LimbBase - 2>>, U64Max}

Selectors == {PaySelector, to_le_bytes(U64(0)), to_le_bytes(U64Max)}

SelectorLayouts == {"sel16", "sel17", "sel24", "sel15"}
BareLayouts == {"bare8", "bare9", "bare7", "bare12", "empty"}

\* the payload of the payment instruction, by layout
Payload(layout, selector, amount) ==
    CASE layout = "sel16" -> selector \o to_le_bytes(amount)
      [] layout = "sel17" -> selector \o to_le_bytes(amount) \o <<255>>
      [] layout = "sel24" -> selector \o to_le_bytes(amount) \o to_le_bytes(U64Max)
      [] layout = "sel15" -> SubSeq(selector \o to_le_bytes(amount), 1, 15)
      [] layout = "bare8" -> to_le_bytes(amount)
      [] layout = "bare9" -> to_le_bytes(amount) \o <<0>>
      [] layout = "bare7" -> SubSeq(to_le_bytes(amount), 1, 7)
      [] layout = "bare12" -> <<2, 0, 0, 0>> \o to_le_bytes(amount)
      [] layout = "empty" -> <<>>

\* the account list of the payment instruction, by the key it has at index 1
RecipientShapes == {"expected", "other", "absent", "expected_at_0", "expected_at_2"}

PaymentAccounts(shape) ==
    CASE shape = "expected" -> <<"payer1", ExpectedRecipient, SystemProgram>>
      [] shape = "other" -> <<"payer1", OtherRecipient, SystemProgram>>
      [] shape = "absent" -> <<"payer1">>
      [] shape = "expected_at_0" -> <<ExpectedRecipient>>
      [] shape = "expected_at_2" -> <<"payer1", OtherRecipient, ExpectedRecipient>>

\* where the transaction puts the payment and the gated call
Shapes ==
    {"first", "after_payment", "third", "payment_then_other", "before_payment",
     "after_gated"}

GoodPayment == PayIx("payer1", ExpectedRecipient, U64Max)

GateTransaction(shape, payment, call) ==
    CASE shape = "first" -> [ixs |-> <<call>>, index |-> 0]
      [] shape = "after_payment" -> [ixs |-> <<payment, call, GoodPayment>>, index |-> 1]
      [] shape = "third" -> [ixs |-> <<GoodPayment, payment, call>>, index |-> 2]
      [] shape = "payment_then_other" ->
             [ixs |-> <<payment, VerifyIx("payer1"), call>>, index |-> 2]
      [] shape = "before_payment" -> [ixs |-> <<call, payment>>, index |-> 0]
      [] shape = "after_gated" ->
             [ixs |-> <<payment,
                        ComputeIx("premium_compute", "payer1", "result2", TRUE),
                        call>>, index |-> 2]

GateInputs ==
    { [ixs |-> GateTransaction(sh, Instruction(PayProgram, PaymentAccounts(rs),
                                               Payload(l, sel, a)),
                               ComputeIx(n, "payer1", "result1", s)).ixs,
       index |-> GateTransaction(sh, Instruction(PayProgram, PaymentAccounts(rs),
                                                 Payload(l, sel, a)),
                                 ComputeIx(n, "payer1", "result1", s)).index,
       name |-> n, with_sysvar |-> s, amount |-> a, layout |-> l,
       recipient |-> rs, shape |-> sh] :
        sh \in Shapes, n \in GatedNames, s \in BOOLEAN, a \in GateAmounts,
        l \in SelectorLayouts \cup BareLayouts, sel \in Selectors,
        rs \in RecipientShapes }

GateInit ==
    /\ results = Genesis.results
    /\ ledgers = Genesis.ledgers
    /\ lamports = Genesis.lamports
    /\ events = Genesis.events
    /\ history = Genesis.history
    /\ clock = 0
    /\ overflow_checks = TRUE
    /\ snap = Genesis
    /\ tx = <<>>
    /\ signer = "payer1"
    /\ status = "idle"
    /\ err = "Ok"
    /\ executed = 0
    /\ g_in \in GateInputs
    /\ g_out = NoGateOutput

\* the gated call of g_in, as the program runs it
GateCall ==
    /\ ~g_out.done
    /\ LET out == Entry(Genesis, g_in.ixs, g_in.index, clock, overflow_checks)
       IN  g_out' = [done |-> TRUE, err |-> out.err, st |-> out.st]
    /\ UNCHANGED <<results, ledgers, lamports, events, history, clock,
                   overflow_checks, snap, tx, signer, status, err, executed, g_in>>

GateNext == GateCall

GateSpec == GateInit /\ [][GateNext]_vars

-----------------------------------------------------------------------------
(* Properties of one gated call (GateSpec) *)

\* the instruction right before the gated call
GatePrevious == g_in.ixs[g_in.index]

\* the gated call comes right after the payment instruction the client built
AfterPayment == g_in.shape \in {"after_payment", "third"}

\* the payment instruction holds the amount g_in.amount in an accepted layout
WellFormedLayouts == {"sel16", "sel17", "sel24", "bare8"}

\* the protected body ran: the result is marked paid and a ComputeEvent logged
BodyRan ==
    /\ g_out.st.results["result1"].paid
    /\ Len(g_out.st.events) = 1

BodyDidNotRun ==
    /\ ~g_out.st.results["result1"].paid
    /\ g_out.st.events = <<>>

TierPrice(name) ==
    CASE name = "premium_compute" -> U64(1000000)
      [] name = "standard_compute" -> U64(5000000)
      [] name = "enterprise_compute" -> U64(50000000)

U64Ge(a, b) == a = b \/ U64Lt(b, a)

RejectedLengthsAsSpecified(n) == n \in 0..7 \/ n \in 9..15 \/ n > 16

\* C3 as stated: every payload of length 0..7, 9..15 or above 16 is rejected
\* as malformed and the body does not run.
C3_LengthsAbove16Rejected ==
    (/\ g_out.done
     /\ g_in.index >= 1
     /\ g_in.with_sysvar
     /\ RejectedLengthsAsSpecified(Len(GatePrevious.data)))
    => (g_out.err = "InvalidArgument" /\ BodyDidNotRun)

\* C3, amended: a payload of length 0..7 or 9..15 is rejected as malformed and
\* the body does not run, whatever its bytes and the recipient; a payload of
\* length 8 or of any length >= 16 is decoded and is not rejected for its
\* length.
C3_OnlyShortLengthsRejected ==
    (g_out.done /\ g_in.index >= 1 /\ g_in.with_sysvar)
    => LET n == Len(GatePrevious.data)
       IN  /\ (n \in 0..7 \/ n \in 9..15)
                => (g_out.err = "InvalidArgument" /\ BodyDidNotRun)
           /\ (n = 8 \/ n >= 16)
                => /\ DecodePaymentAmount(GatePrevious.data).ok
                   /\ (/\ Len(GatePrevious.accounts) >= 2
                       /\ GatePrevious.accounts[2] = ExpectedRecipient)
                        => g_out.err \in {"Ok", "InsufficientFunds"}

C3_Witness ==
    /\ g_out.done
    /\ g_in.index = 1
    /\ g_in.with_sysvar
    /\ Len(GatePrevious.data) = 15
    /\ g_in.amount = U64Max
    /\ GatePrevious.accounts[2] = ExpectedRecipient
    /\ g_out.err = "InvalidArgument"
    /\ BodyDidNotRun

\* C4: the decoded amount is the little-endian u64 at bytes [8,16) of a
\* payload of length >= 16 and at bytes [0,8) of a payload of length 8,
\* whatever the selector and the bytes from offset 16 are, and it alone
\* decides whether the payment is sufficient.
C4_AmountDecodedAtOffset ==
    (/\ g_out.done
     /\ g_in.index >= 1
     /\ AfterPayment
     /\ g_in.layout \in WellFormedLayouts)
    => /\ DecodePaymentAmount(GatePrevious.data) =
              [ok |-> TRUE, payment_amount |-> g_in.amount]
       /\ g_in.with_sysvar
            => ((g_out.err = "InsufficientFunds")
                   <=> U64Lt(g_in.amount, TierPrice(g_in.name)))

C4_Witness ==
    /\ g_out.done
    /\ g_in.index = 1
    /\ g_in.with_sysvar
    /\ g_in.layout = "sel24"
    /\ Len(GatePrevious.data) = 24
    /\ SubSeq(GatePrevious.data, 1, 8) = to_le_bytes(U64Max)
    /\ g_in.amount = U64(999999)
    /\ g_in.name = "premium_compute"
    /\ g_out.err = "InsufficientFunds"

\* C5: a gated call at index 0 fails and its body does not run, whatever the
\* instructions of the transaction hold.
C5_IndexZeroFails ==
    (g_out.done /\ g_in.index = 0)
    => (g_out.err = "InvalidArgument" /\ BodyDidNotRun)

C5_Witness ==
    /\ g_out.done
    /\ g_in.index = 0
    /\ g_in.with_sysvar
    /\ g_in.shape = "before_payment"
    /\ g_in.layout = "sel16"
    /\ g_in.amount = U64Max
    /\ g_in.ixs[2].accounts[2] = ExpectedRecipient
    /\ g_out.err = "InvalidArgument"
    /\ BodyDidNotRun

\* a + 1 = b on u64
U64Succ(a, b) == ~U64Add(a, U64(1)).overflow /\ U64Add(a, U64(1)).val = b

TierValue(name) ==
    CASE name = "premium_compute" -> 42
      [] name = "standard_compute" -> 100
      [] name = "enterprise_compute" -> 1000

\* the transaction of g_in with its gated call replaced by a call of `name`
WithCall(name) ==
    [g_in.ixs EXCEPT ![g_in.index + 1] =
        ComputeIx(name, "payer1", "result1", g_in.with_sysvar)]

WouldPass(name) ==
    Entry(Genesis, WithCall(name), g_in.index, clock, overflow_checks).err = "Ok"

-----------------------------------------------------------------------------
(* Properties of the program in a sequence of transactions (Spec) *)

\* the instruction executed last in the running or aborted transaction
LastIx == tx[Len(tx)]

IsCall(ix, name) ==
    /\ ix.program_id = ProgramId
    /\ Len(ix.data) >= 8
    /\ SubSeq(ix.data, 1, 8) = Discriminator(name)

LastIsGated == tx # <<>> /\ \E n \in GatedNames : IsCall(LastIx, n)

LastGatedName == CHOOSE n \in GatedNames : IsCall(LastIx, n)

\* what the gate says of the last instruction, a gated call
LastGateVerdict ==
    X402Gate(SubSeq(LastIx.accounts, 4, Len(LastIx.accounts)), tx, Len(tx) - 1,
             TierPrice(LastGatedName))

\* C2: when a gated call fails verification the transaction leaves nothing
\* behind: results, ledgers, event log and balances are those of its start.
C2_FailedGateLeavesNoTrace ==
    (LastIsGated /\ LastGateVerdict # "Ok")
    => /\ status = "aborted"
       /\ results = snap.results
       /\ ledgers = snap.ledgers
       /\ events = snap.events
       /\ lamports = snap.lamports

C2_Witness ==
    /\ status = "aborted"
    /\ Len(tx) = 2
    /\ tx[1] = PayIx(signer, ExpectedRecipient, U64(999999))
    /\ IsCall(tx[2], "premium_compute")
    /\ err = "InsufficientFunds"
    /\ ledgers[signer].exists
    /\ ~results[tx[2].accounts[2]].exists
    /\ lamports[ExpectedRecipient] = 0

\* the account state after the first k instructions of the transaction
RECURSIVE Replay(_)
Replay(k) ==
    IF k = 0 THEN snap
    ELSE Entry(Replay(k - 1), tx, k - 1, clock, overflow_checks).st

\* the account state the last instruction started from
BeforeLast == Replay(Len(tx) - 1)

\* the amounts of the successful record_payment calls of payer p, in order
RECURSIVE AmountsOf(_, _)
AmountsOf(p, calls) ==
    IF calls = <<>> THEN <<>>
    ELSE IF Head(calls).payer = p
    THEN <<Head(calls).amount>> \o AmountsOf(p, Tail(calls))
    ELSE AmountsOf(p, Tail(calls))

\* the sum of u64 amounts as a number: val + carry * 2^64
RECURSIVE WideSum(_)
WideSum(amounts) ==
    IF amounts = <<>> THEN [carry |-> 0, val |-> U64(0)]
    ELSE LET rest == WideSum(Tail(amounts))
             sum == U64Add(rest.val, Head(amounts))
         IN  [carry |-> rest.carry + (IF sum.overflow THEN 1 ELSE 0),
              val |-> sum.val]

\* C7: for each payer p the ledger of p counts the successful record_payment
\* calls of p and holds the sum of their amounts.
C7_LedgerIsCountAndSum ==
    \A p \in Payers :
        /\ ledgers[p].total_payments = Len(AmountsOf(p, history))
        /\ WideSum(AmountsOf(p, history)) =
               [carry |-> 0, val |-> ledgers[p].total_amount]

LastIsRecordZero ==
    /\ tx # <<>>
    /\ IsCall(LastIx, "record_payment")
    /\ Len(LastIx.data) = 16
    /\ SubSeq(LastIx.data, 9, 16) = <<0, 0, 0, 0, 0, 0, 0, 0>>

\* C8: record_payment with amount 0 fails, with InvalidPaymentAmount once its
\* accounts are valid, and leaves every ledger as it was: an existing record
\* keeps its fields, a payer without a record still has none, and no event is
\* logged.
C8_ZeroAmountRejected ==
    LastIsRecordZero
    => /\ status = "aborted"
       /\ ledgers = snap.ledgers
       /\ events = snap.events
       /\ history = snap.history
       /\ RecordAccounts(BeforeLast, LastIx).err = "Ok"
            => err = "InvalidPaymentAmount"

C8_Witness ==
    /\ status = "aborted"
    /\ LastIsRecordZero
    /\ err = "InvalidPaymentAmount"
    /\ ~ledgers[signer].exists
    /\ \E p \in Payers : ledgers[p].exists /\ ledgers[p].total_payments = 1
    /\ Len(events) = 1

LastIsFree == tx # <<>> /\ IsCall(LastIx, "free_compute")

\* C9: free_compute is not gated: once its accounts are valid (the result
\* account is new and the payer can fund it) it succeeds at every index, index
\* 0 included, after any instruction and without the instructions sysvar, and
\* creates ComputeResult{owner = payer, value = 0, paid = false}.
C9_FreeComputeNotGated ==
    LastIsFree
    => /\ err \in {"Ok", "AccountAlreadyInUse", "InsufficientLamports"}
       /\ ComputeAccounts(BeforeLast, LastIx).err = "Ok"
            => /\ status = "running"
               /\ err = "Ok"
               /\ results[LastIx.accounts[2]] =
                      [exists |-> TRUE, owner |-> LastIx.accounts[1],
                       value |-> 0, paid |-> FALSE]

C9_Witness ==
    /\ status = "running"
    /\ Len(tx) = 1
    /\ LastIsFree
    /\ Len(LastIx.accounts) = 3
    /\ err = "Ok"
    /\ results[LastIx.accounts[2]] =
           [exists |-> TRUE, owner |-> signer, value |-> 0, paid |-> FALSE]

LastIsCompute ==
    tx # <<>> /\ \E n \in GatedNames \cup {"free_compute"} : IsCall(LastIx, n)

\* a ComputeResult at an instruction boundary: none, Paid(v) or Unpaid(0)
ResultShape(r) ==
    \/ r = NoResult
    \/ r.exists /\ r.paid /\ r.value \in {42, 100, 1000} /\ r.owner \in Payers
    \/ r.exists /\ ~r.paid /\ r.value = 0 /\ r.owner \in Payers

\* a compute call on a result account that exists already fails
SecondCreationFails ==
    (LastIsCompute /\ BeforeLast.results[LastIx.accounts[2]].exists)
    => (status = "aborted" /\ err = "AccountAlreadyInUse")

\* A record a committed transaction created keeps its fields for ever; a
\* record the running transaction created keeps them too, or goes with the
\* whole transaction when a later instruction aborts it.
ResultKept ==
    \A r \in ResultKeys :
        /\ snap.results[r].exists
             => (results[r] = snap.results[r] /\ results'[r] = snap.results[r]
                 /\ snap'.results[r] = snap.results[r])
        /\ results[r].exists
             => \/ results'[r] = results[r]
                \/ status' = "aborted" /\ ~snap.results[r].exists
                   /\ results'[r] = NoResult

\* C11: a ComputeResult is absent, Paid(value = v) or Unpaid(value = 0); once
\* created, no later instruction naming it (gated call, free_compute,
\* record_payment) changes its owner, value or paid, and a second creation on
\* it fails.
C11_ResultIsTerminal ==
    /\ [](\A r \in ResultKeys : ResultShape(results[r]))
    /\ []SecondCreationFails
    /\ [][ResultKept]_vars

C11_Witness ==
    /\ status = "aborted"
    /\ LastIsCompute
    /\ IsCall(LastIx, "free_compute")
    /\ err = "AccountAlreadyInUse"
    /\ results[LastIx.accounts[2]] =
           [exists |-> TRUE, owner |-> "payer1", value |-> 42, paid |-> TRUE]
    /\ signer = "payer2"

LastIsVerify == tx # <<>> /\ IsCall(LastIx, "verify_payment")

\* C12: verify_payment returns Ok when the caller's balance is at least
\* 1,000,000 and InsufficientPayment otherwise; the same call alone in a
\* transaction on the same accounts returns the same; a successful call leaves
\* results, ledgers, balances and the event log as they were before it.
C12_VerifyPaymentReadsBalanceOnly ==
    LastIsVerify
    => LET payer == LastIx.accounts[1]
           before == BeforeLast
       IN  /\ err = (IF before.lamports[payer] >= 1000000
                     THEN "Ok" ELSE "InsufficientPayment")
           /\ err = Entry(before, <<LastIx>>, 0, 0, ~overflow_checks).err
           /\ err = "Ok"
                => /\ status = "running"
                   /\ results = before.results
                   /\ ledgers = before.ledgers
                   /\ lamports = before.lamports
                   /\ events = before.events
           /\ err # "Ok"
                => /\ status = "aborted"
                   /\ Working = snap

C12_Witness ==
    /\ LastIsVerify
    /\ Len(tx) = 2
    /\ IsCall(tx[1], "free_compute")
    /\ BeforeLast.lamports[signer] < 1000000
    /\ BeforeLast.lamports[signer] > 0
    /\ err = "InsufficientPayment"
    /\ status = "aborted"
    /\ lamports = snap.lamports

\* C13: the outcome of the gate is a function of the transaction alone.  A
\* gated call whose accounts are valid returns, in whatever state the program
\* has reached (ledgers, results, balances, clock), what the same call of the
\* same transaction returns on the genesis accounts at clock 0.
C13_GateIsFunctionOfTransaction ==
    (LastIsGated /\ ComputeAccounts(BeforeLast, LastIx).err = "Ok")
    => /\ err = Entry(Genesis, tx, Len(tx) - 1, 0, ~overflow_checks).err
       /\ err = LastGateVerdict

C13_Witness ==
    /\ LastIsGated
    /\ Len(tx) = 2
    /\ err = "Ok"
    /\ clock = 2
    /\ ledgers[signer].exists
    /\ BeforeLast.lamports # Genesis.lamports
    /\ BeforeLast.ledgers # Genesis.ledgers
    /\ ComputeAccounts(BeforeLast, LastIx).err = "Ok"

\* the totals of the ledger of p do not decrease from state s to state t
TotalsNotLower(p, s, t) ==
    /\ ~U64Lt(t.ledgers[p].total_amount, s.ledgers[p].total_amount)
    /\ t.ledgers[p].total_payments >= s.ledgers[p].total_payments

\* One step of the program, as the ledgers see it.  In the committed accounts
\* no total ever goes down.  An instruction that succeeds lowers no total,
\* and when it is a record_payment of p it adds 1 to total_payments and its
\* amount, which is > 0, to total_amount; it leaves the totals of the others.
LedgerStep ==
    \A p \in Payers :
        /\ TotalsNotLower(p, snap, [ledgers |-> snap'.ledgers])
        /\ (executed' = executed + 1 /\ err' = "Ok")
             => /\ TotalsNotLower(p, [ledgers |-> ledgers], [ledgers |-> ledgers'])
                /\ IF history' # history /\ history'[Len(history')].payer = p
                   THEN LET amount == history'[Len(history')].amount
                        IN  /\ U64Lt(U64(0), amount)
                            /\ ledgers'[p].total_payments =
                                   ledgers[p].total_payments + 1
                            /\ U64Add(ledgers[p].total_amount, amount) =
                                   [val |-> ledgers'[p].total_amount,
                                    overflow |-> FALSE]
                   ELSE /\ ledgers'[p].total_payments = ledgers[p].total_payments
                        /\ ledgers'[p].total_amount = ledgers[p].total_amount

\* C14: the totals of every ledger never decrease, and every successful
\* record_payment raises total_payments by exactly 1 and total_amount by
\* exactly its amount, which is > 0.
C14_LedgerTotalsMonotonic == [][LedgerStep]_vars

IsPrefix(a, b) == Len(a) <= Len(b) /\ SubSeq(b, 1, Len(a)) = a

IsRecorded(e) == e.name = "PaymentRecordedEvent"

\* the PaymentRecordedEvent entries of payer p in a log, in order
RECURSIVE RecordedBy(_, _)
RecordedBy(p, log) ==
    IF log = <<>> THEN <<>>
    ELSE IF IsRecorded(Head(log)) /\ Head(log).payer = p
    THEN <<Head(log)>> \o RecordedBy(p, Tail(log))
    ELSE RecordedBy(p, Tail(log))

\* the log holds, for every payer, as many PaymentRecordedEvent entries as
\* the ledger counts payments; the k-th carries total_payments = k and the
\* amount of the payer's k-th successful call
EventsMatchLedger ==
    \A p \in Payers :
        LET evs == RecordedBy(p, events)
            amounts == AmountsOf(p, history)
        IN  /\ Len(evs) = ledgers[p].total_payments
            /\ Len(evs) = Len(amounts)
            /\ \A k \in 1..Len(evs) :
                   evs[k] = PaymentRecordedEvent(p, amounts[k], k)

\* the committed log only grows; an instruction that succeeds only appends,
\* and a record_payment appends exactly its one event
EventStep ==
    /\ IsPrefix(snap.events, snap'.events)
    /\ IsPrefix(snap.events, events)
    /\ (executed' = executed + 1 /\ err' = "Ok")
         => /\ IsPrefix(events, events')
            /\ IF history' # history
               THEN LET call == history'[Len(history')]
                    IN  events' =
                            Append(events,
                                   PaymentRecordedEvent(call.payer, call.amount,
                                       ledgers'[call.payer].total_payments))
               ELSE \A k \in Len(events) + 1..Len(events') :
                        ~IsRecorded(events'[k])

\* C15: the event log is append-only; each successful record_payment by p
\* appends exactly one PaymentRecordedEvent carrying p, the amount and the
\* incremented total_payments, so the entries of p are as many as the ledger
\* of p counts and the k-th carries total_payments = k.
C15_EventsFollowLedger ==
    /\ []EventsMatchLedger
    /\ [][EventStep]_vars

C15_Witness ==
    /\ status = "running"
    /\ Len(events) = 3
    /\ \A k \in 1..3 : IsRecorded(events[k])
    /\ ledgers[signer].total_payments = 2
    /\ \E p \in Payers : p # signer /\ ledgers[p].total_payments = 1

-----------------------------------------------------------------------------
(* The checks of the gate, one gated call (GateSpec) *)

Checks == <<"source", "index", "payload", "amount", "recipient">>

\* the first check, in the order of Checks, that the transaction of g_in
\* fails; "none" when it passes them all
FirstFailedCheck ==
    IF ~g_in.with_sysvar THEN "source"
    ELSE IF g_in.index = 0 THEN "index"
    ELSE IF ~(Len(GatePrevious.data) >= 16 \/ Len(GatePrevious.data) = 8)
    THEN "payload"
    ELSE IF U64Lt(DecodePaymentAmount(GatePrevious.data).payment_amount,
                  TierPrice(g_in.name))
    THEN "amount"
    ELSE IF ~(Len(GatePrevious.accounts) >= 2
              /\ GatePrevious.accounts[2] = ExpectedRecipient)
    THEN "recipient"
    ELSE "none"

\* a premium_compute transaction that fails the check c and no other
FailingOnly(c) ==
    LET call(s) == ComputeIx("premium_compute", "payer1", "result1", s)
        pay(accounts, data) == Instruction(PayProgram, accounts, data)
    IN  CASE c = "source" -> [ixs |-> <<GoodPayment, call(FALSE)>>, index |-> 1]
          [] c = "index" -> [ixs |-> <<call(TRUE), GoodPayment>>, index |-> 0]
          [] c = "payload" ->
                 [ixs |-> <<pay(PaymentAccounts("expected"),
                                Payload("sel15", PaySelector, U64Max)),
                            call(TRUE)>>, index |-> 1]
          [] c = "amount" ->
                 [ixs |-> <<pay(PaymentAccounts("expected"),
                                Payload("sel16", PaySelector, U64(PremiumPrice - 1))),
                            call(TRUE)>>, index |-> 1]
          [] c = "recipient" ->
                 [ixs |-> <<pay(PaymentAccounts("other"),
                                Payload("sel16", PaySelector, U64Max)),
                            call(TRUE)>>, index |-> 1]
          [] c = "none" -> [ixs |-> <<GoodPayment, call(TRUE)>>, index |-> 1]

\* the error the program reports for a failure of check c
ReportedFor(c) ==
    Entry(Genesis, FailingOnly(c).ixs, FailingOnly(c).index, 0, TRUE).err

\* the checks run in the order of Checks: the error is the one of the first
\* check that fails
ErrorOfFirstFailedCheck == g_out.done => g_out.err = ReportedFor(FirstFailedCheck)

\* C16: the gate reports the error kind of the first check that fails, in
\* the order source, index, payload, amount, recipient, and that kind is
\* distinct: it is the kind of no other check.
C16_DistinctErrorOfFirstFailedCheck ==
    g_out.done
    => /\ g_out.err = ReportedFor(FirstFailedCheck)
       /\ \A k \in 1..Len(Checks) :
              Checks[k] # FirstFailedCheck => g_out.err # ReportedFor(Checks[k])

\* ix is a payment of at least `price` to the expected recipient
ValidPayment(ix, price) ==
    /\ Len(ix.data) >= 16 \/ Len(ix.data) = 8
    /\ U64Ge(from_le_bytes(IF Len(ix.data) >= 16 THEN SubSeq(ix.data, 9, 16)
                           ELSE ix.data), price)
    /\ Len(ix.accounts) >= 2
    /\ ix.accounts[2] = ExpectedRecipient

\* C17: the instruction right before the gated call alone decides the gate.
\* The call passes only at an index >= 1 whose predecessor is a valid
\* payment, it returns what it returns in the transaction made of that
\* predecessor and the call alone, and a valid payment two places before or
\* after the call, or a gated call that passed right before, does not make
\* it pass.
C17_OnlyPredecessorCounts ==
    g_out.done
    => LET call == g_in.ixs[g_in.index + 1]
       IN  /\ (g_out.err = "Ok")
                <=> /\ g_in.with_sysvar
                    /\ g_in.index >= 1
                    /\ ValidPayment(GatePrevious, TierPrice(g_in.name))
           /\ g_in.index >= 1
                => g_out.err = Entry(Genesis, <<GatePrevious, call>>, 1, clock,
                                     overflow_checks).err
           /\ g_in.index = 0 => g_out.err # "Ok"

C17_Witness ==
    /\ g_out.done
    /\ g_in.shape = "third"
    /\ g_in.with_sysvar
    /\ ValidPayment(g_in.ixs[1], TierPrice(g_in.name))
    /\ ~ValidPayment(GatePrevious, TierPrice(g_in.name))
    /\ g_in.recipient = "other"
    /\ g_in.layout = "sel16"
    /\ g_in.amount = U64Max
    /\ g_out.err = "InvalidArgument"
    /\ BodyDidNotRun

-----------------------------------------------------------------------------
(* What the gate reads of the predecessor (Spec) *)

\* ix for another program and with other accounts, but for its payload and
\* its account at index 1
Scrubbed(ix) ==
    Instruction(IF ix.program_id = MemoProgram THEN PayProgram ELSE MemoProgram,
                IF Len(ix.accounts) >= 2 THEN <<"nobody", ix.accounts[2]>>
                ELSE IF Len(ix.accounts) = 1 THEN <<"nobody">> ELSE <<>>,
                ix.data)

\* C18: a gated call returns the same when its predecessor is replaced by an
\* instruction of another program with other accounts at every index but 1
\* and the same payload; it passes exactly when the predecessor's payload
\* and account 1 make a valid payment, whatever program the predecessor is
\* for and whether or not it moved any value.
C18_GateReadsPayloadAndAccount1 ==
    (LastIsGated /\ Len(tx) >= 2 /\ ComputeAccounts(BeforeLast, LastIx).err = "Ok")
    => LET i == Len(tx) - 1
       IN  /\ err = Entry(BeforeLast, [tx EXCEPT ![i] = Scrubbed(tx[i])], i,
                          clock, overflow_checks).err
           /\ (err = "Ok")
                <=> /\ \E k \in 4..Len(LastIx.accounts) :
                           LastIx.accounts[k] = InstructionsSysvar
                    /\ ValidPayment(tx[i], TierPrice(LastGatedName))

C18_Witness ==
    /\ status = "running"
    /\ LastIsGated
    /\ Len(tx) = 2
    /\ tx[1].program_id = MemoProgram
    /\ err = "Ok"
    /\ results[LastIx.accounts[2]].paid
    /\ results[LastIx.accounts[2]].value = 1000
    /\ lamports[ExpectedRecipient] = snap.lamports[ExpectedRecipient]
    /\ lamports[ExpectedRecipient] = 0

-----------------------------------------------------------------------------
(* Where paid results come from (Spec) *)

\* instruction i of the transaction ixs is a gated call that creates r with
\* value v, right after a payment of at least its price to the recipient
PaidCreation(ixs, i, r, v) ==
    /\ i >= 2
    /\ \E n \in GatedNames :
           /\ IsCall(ixs[i], n)
           /\ TierValue(n) = v
           /\ ixs[i].accounts[2] = r
           /\ ValidPayment(ixs[i - 1], TierPrice(n))

\* paid results hold 42, 100 or 1000 and unpaid ones 0; a paid result the
\* running transaction created comes from one of its gated calls
PaidResultsValid ==
    \A r \in ResultKeys :
        results[r].exists
        => /\ results[r].paid => results[r].value \in {42, 100, 1000}
           /\ ~results[r].paid => results[r].value = 0
           /\ (results[r].paid /\ ~snap.results[r].exists)
                => \E i \in 1..Len(tx) : PaidCreation(tx, i, r, results[r].value)

\* a paid result appears only as the effect of a gated call that comes right
\* after a valid payment, and is committed as it was created
PaidResultCreated ==
    \A r \in ResultKeys :
        /\ (~results[r].exists /\ results'[r].exists /\ results'[r].paid)
             => PaidCreation(tx', Len(tx'), r, results'[r].value)
        /\ (~snap.results[r].exists /\ snap'.results[r].exists)
             => snap'.results[r] = results[r]

-----------------------------------------------------------------------------
(* The payer field of a ledger (Spec) *)

\* C20: the payer field of every existing PaymentLedger is the payer whose
\* key addresses the record.
C20_LedgerNamesItsPayer ==
    \A p \in Payers : ledgers[p].exists => ledgers[p].payer = p

====
